---- MODULE Spec2Model ----
(***************************************************************************)
(* Model of dist/guessUnicodePunctuation.user.js: the punctuation rule     *)
(* tables, punctuationRulesForLanguage, transform and the markup           *)
(* preserving rule list.                                                   *)
(*                                                                         *)
(* A text is a sequence of characters.  An ASCII character is the string   *)
(* holding it; any other character is named by its code point, "U+2019".   *)
(***************************************************************************)
EXTENDS Integers, Sequences, FiniteSets, TLC

(***************************************************************************)
(* Characters                                                              *)
(***************************************************************************)

\* The printable ASCII characters in code order: AsciiPrintable[k] has code k + 31
\* (the grave accent, code 96, is written by its code point).
AsciiPrintable ==
  << " ", "!", "\"", "#", "$", "%", "&", "'", "(", ")", "*", "+", ",", "-", ".", "/",
     "0", "1", "2", "3", "4", "5", "6", "7", "8", "9", ":", ";", "<", "=", ">", "?",
     "@", "A", "B", "C", "D", "E", "F", "G", "H", "I", "J", "K", "L", "M", "N", "O",
     "P", "Q", "R", "S", "T", "U", "V", "W", "X", "Y", "Z", "[", "\\", "]", "^", "_",
     "U+0060", "a", "b", "c", "d", "e", "f", "g", "h", "i", "j", "k", "l", "m", "n", "o",
     "p", "q", "r", "s", "t", "u", "v", "w", "x", "y", "z", "{", "|", "}", "~" >>

\* Characters outside printable ASCII that the model names, with their code points.
NamedCodes ==
  [ c \in { "\n", "\t", "U+00A0", "U+00AB", "U+00BB", "U+00E9", "U+00FC", "U+00FF",
            "U+05BE", "U+05D0", "U+05F3", "U+05F4",
            "U+2010", "U+2012", "U+2013", "U+2018", "U+2019", "U+201A", "U+201C",
            "U+201D", "U+201E", "U+2026", "U+2032", "U+2033", "U+2039", "U+203A",
            "U+65E5" } |->
      CASE c = "\n" -> 10
        [] c = "\t" -> 9
        [] c = "U+00A0" -> 160
        [] c = "U+00AB" -> 171
        [] c = "U+00BB" -> 187
        [] c = "U+00E9" -> 233
        [] c = "U+00FC" -> 252
        [] c = "U+00FF" -> 255
        [] c = "U+05BE" -> 1470
        [] c = "U+05D0" -> 1488
        [] c = "U+05F3" -> 1523
        [] c = "U+05F4" -> 1524
        [] c = "U+2010" -> 8208
        [] c = "U+2012" -> 8210
        [] c = "U+2013" -> 8211
        [] c = "U+2018" -> 8216
        [] c = "U+2019" -> 8217
        [] c = "U+201A" -> 8218
        [] c = "U+201C" -> 8220
        [] c = "U+201D" -> 8221
        [] c = "U+201E" -> 8222
        [] c = "U+2026" -> 8230
        [] c = "U+2032" -> 8242
        [] c = "U+2033" -> 8243
        [] c = "U+2039" -> 8249
        [] c = "U+203A" -> 8250
        [] c = "U+65E5" -> 26085 ]

\* The code point of every character the model knows.
CodeOf ==
  [ c \in {AsciiPrintable[k] : k \in 1..Len(AsciiPrintable)} \cup DOMAIN NamedCodes |->
      IF c \in DOMAIN NamedCodes THEN NamedCodes[c]
      ELSE 31 + (CHOOSE k \in 1..Len(AsciiPrintable) : AsciiPrintable[k] = c) ]

\* A byte that is no character of the model keeps its number as its name.
ByteName(n) == "byte:" \o ToString(n)

\* String.fromCharCode for the code units atob produces (0..255).
Chr(n) ==
  IF \E c \in DOMAIN CodeOf : CodeOf[c] = n
  THEN CHOOSE c \in DOMAIN CodeOf : CodeOf[c] = n
  ELSE ByteName(n)

\* charCodeAt; a code unit the model does not name lies in 128..255 (it came from atob).
Code(c) == IF c \in DOMAIN CodeOf THEN CodeOf[c] ELSE 128

Digits == {"0", "1", "2", "3", "4", "5", "6", "7", "8", "9"}
AsciiLetters == {AsciiPrintable[k] : k \in 34..59} \cup {AsciiPrintable[k] : k \in 66..91}

\* \d
IsDigit(c) == c \in Digits
\* \w is [A-Za-z0-9_]; \W is its complement
IsWord(c) == c \in AsciiLetters \cup Digits \cup {"_"}
\* \p{L} (under the u flag): the letters among the model's characters
IsLetter(c) == c \in AsciiLetters \cup {"U+00E9", "U+00FC", "U+00FF", "U+05D0", "U+65E5"}
\* \s; \S is its complement
IsSpace(c) == c \in {" ", "\t", "\n", "U+00A0"}
\* . without the s flag matches everything but line terminators
IsDot(c) == c # "\n"
\* [A-Za-z0-9+/=]
IsB64Char(c) == c \in AsciiLetters \cup Digits \cup {"+", "/", "="}


(***************************************************************************)
(* Host functions: btoa, atob, Date.parse                                  *)
(***************************************************************************)

\* The result of a call that may throw.
Ok(t) == [ok |-> TRUE, text |-> t]
Thrown == [ok |-> FALSE, text |-> <<>>]

\* The Base64 alphabet, B64Alphabet[v + 1] encoding the six bits v.
B64Alphabet ==
  [k \in 1..64 |->
     IF k <= 26 THEN AsciiPrintable[33 + k]
     ELSE IF k <= 52 THEN AsciiPrintable[39 + k]
     ELSE IF k <= 62 THEN AsciiPrintable[k - 36]
     ELSE IF k = 63 THEN "+" ELSE "/"]

B64Value(c) == (CHOOSE k \in 1..64 : B64Alphabet[k] = c) - 1

RECURSIVE B64Encode(_)
\* Base64 of a sequence of bytes, three bytes to four characters, padded with "=".
B64Encode(bytes) ==
  IF Len(bytes) = 0 THEN <<>>
  ELSE IF Len(bytes) = 1 THEN
    << B64Alphabet[(bytes[1] \div 4) + 1], B64Alphabet[((bytes[1] % 4) * 16) + 1], "=", "=" >>
  ELSE IF Len(bytes) = 2 THEN
    << B64Alphabet[(bytes[1] \div 4) + 1],
       B64Alphabet[((bytes[1] % 4) * 16 + (bytes[2] \div 16)) + 1],
       B64Alphabet[((bytes[2] % 16) * 4) + 1], "=" >>
  ELSE
    << B64Alphabet[(bytes[1] \div 4) + 1],
       B64Alphabet[((bytes[1] % 4) * 16 + (bytes[2] \div 16)) + 1],
       B64Alphabet[((bytes[2] % 16) * 4 + (bytes[3] \div 64)) + 1],
       B64Alphabet[(bytes[3] % 64) + 1] >> \o B64Encode(SubSeq(bytes, 4, Len(bytes)))

\* btoa: throws InvalidCharacterError when a character is above U+00FF.
btoa(t) ==
  IF \E k \in 1..Len(t) : Code(t[k]) > 255 THEN Thrown
  ELSE Ok(B64Encode([k \in 1..Len(t) |-> Code(t[k])]))

RECURSIVE B64Decode(_)
\* The bytes of unpadded Base64 data (length not 1 modulo 4); leftover bits are dropped.
B64Decode(v) ==
  IF Len(v) < 2 THEN <<>>
  ELSE IF Len(v) = 2 THEN << v[1] * 4 + (v[2] \div 16) >>
  ELSE IF Len(v) = 3 THEN << v[1] * 4 + (v[2] \div 16), (v[2] % 16) * 16 + (v[3] \div 4) >>
  ELSE << v[1] * 4 + (v[2] \div 16), (v[2] % 16) * 16 + (v[3] \div 4), (v[3] % 4) * 64 + v[4] >>
       \o B64Decode(SubSeq(v, 5, Len(v)))

\* The data of atob's argument: one or two "=" are dropped from a length that is a
\* multiple of four.
B64Unpadded(t) ==
  IF Len(t) % 4 = 0 /\ Len(t) > 0 /\ t[Len(t)] = "="
  THEN IF t[Len(t) - 1] = "=" THEN SubSeq(t, 1, Len(t) - 2) ELSE SubSeq(t, 1, Len(t) - 1)
  ELSE t

\* atob (forgiving-base64 decode of text without white space): throws
\* InvalidCharacterError on a length of 1 modulo 4 or on a character that is no data.
atob(t) ==
  LET d == B64Unpadded(t) IN
  IF Len(d) % 4 = 1 \/ \E k \in 1..Len(d) : ~(IsB64Char(d[k]) /\ d[k] # "=") THEN Thrown
  ELSE LET bytes == B64Decode([k \in 1..Len(d) |-> B64Value(d[k])])
       IN Ok([k \in 1..Len(bytes) |-> Chr(bytes[k])])

DigitValue(c) == Code(c) - 48
Num2(t, i) == DigitValue(t[i]) * 10 + DigitValue(t[i + 1])
Num4(t, i) == Num2(t, i) * 100 + Num2(t, i + 2)

IsLeapYear(y) == y % 4 = 0 /\ (y % 100 # 0 \/ y % 400 = 0)
DaysInMonth(y, m) ==
  IF m = 2 THEN (IF IsLeapYear(y) THEN 29 ELSE 28)
  ELSE IF m \in {4, 6, 9, 11} THEN 30 ELSE 31

\* ~Number.isNaN(Date.parse(t)) for t of the form YYYY-MM or YYYY-MM-DD (what the date
\* matcher hands over).  A month outside 01..12 or a day outside 01..31 is NaN in every
\* engine; a day past the end of its month (02-30) is NaN in engines that check it and a
\* date rolled over in those that do not: rollover says which engine runs.
DateParses(t, rollover) ==
  /\ Num2(t, 6) \in 1..12
  /\ Len(t) = 10 =>
       /\ Num2(t, 9) \in 1..31
       /\ rollover \/ Num2(t, 9) <= DaysInMonth(Num4(t, 1), Num2(t, 6))

(***************************************************************************)
(* Regular expressions.  A matcher is named by a string; MatchAt gives the *)
(* match the regular expression finds when it is tried at position i of s   *)
(* (1-based): its length and its capture groups, an unset group being the  *)
(* empty text.  No matcher of the script matches the empty text, so length *)
(* 0 says that there is no match at i.                                     *)
(***************************************************************************)

Match(n, groups) == [len |-> n, g |-> groups]
NoMatch == [len |-> 0, g |-> <<>>]

\* s[i] exists and is c
At(s, i, c) == i >= 1 /\ i <= Len(s) /\ s[i] = c
\* the literal lit stands at position i of s
LitAt(s, i, lit) == \A k \in 1..Len(lit) : At(s, i + k - 1, lit[k])
\* the length of the longest run of characters in class P that starts at position i
RunLen(P(_), s, i) ==
  IF i > Len(s) THEN 0
  ELSE CHOOSE n \in 0..(Len(s) + 1 - i) :
         /\ \A k \in 0..(n - 1) : P(s[i + k])
         /\ i + n > Len(s) \/ ~P(s[i + n])
IsNonSpace(c) == ~IsSpace(c)

\* (?<=[^\p{L}\d]|^) before position i
BehindNoLetterDigit(s, i) == i = 1 \/ ~(IsLetter(s[i - 1]) \/ IsDigit(s[i - 1]))
\* (?=[^\p{L}\d]|$) at position j
AheadNoLetterDigit(s, j) == j > Len(s) \/ ~(IsLetter(s[j]) \/ IsDigit(s[j]))
\* (?<=\W|^) before position i
BehindNonWord(s, i) == i = 1 \/ ~IsWord(s[i - 1])
\* (?=\W|$) at position j
AheadNonWord(s, j) == j > Len(s) \/ ~IsWord(s[j])

\* (?<=[^\p{L}\d]|^)q(.+?)q(?=[^\p{L}\d]|$) for a delimiter q: the lazy group ends at
\* the first q that is followed by the boundary.
Delimited(q, s, i) ==
  LET ends == {j \in (i + 2)..Len(s) :
                 /\ s[j] = q
                 /\ AheadNoLetterDigit(s, j + 1)
                 /\ \A k \in (i + 1)..(j - 1) : IsDot(s[k])}
  IN IF At(s, i, q) /\ BehindNoLetterDigit(s, i) /\ ends # {}
     THEN LET j == CHOOSE e \in ends : \A f \in ends : e <= f
          IN Match(j - i + 1, <<SubSeq(s, i + 1, j - 1)>>)
     ELSE NoMatch

\* (?<=\W|^)'(n)'(?=\W|$) with the i flag
NIdiom(s, i) ==
  IF /\ At(s, i, "'") /\ (At(s, i + 1, "n") \/ At(s, i + 1, "N")) /\ At(s, i + 2, "'")
     /\ BehindNonWord(s, i) /\ AheadNonWord(s, i + 3)
  THEN Match(3, <<SubSeq(s, i + 1, i + 1)>>)
  ELSE NoMatch

\* (\d+)"
DoublePrime(s, i) ==
  LET d == RunLen(IsDigit, s, i)
  IN IF d >= 1 /\ At(s, i + d, "\"") THEN Match(d + 1, <<SubSeq(s, i, i + d - 1)>>)
     ELSE NoMatch

\* (\d+)'(\d+)
SinglePrime(s, i) ==
  LET d1 == RunLen(IsDigit, s, i)
      d2 == RunLen(IsDigit, s, i + d1 + 1)
  IN IF d1 >= 1 /\ At(s, i + d1, "'") /\ d2 >= 1
     THEN Match(d1 + 1 + d2,
                <<SubSeq(s, i, i + d1 - 1), SubSeq(s, i + d1 + 1, i + d1 + d2)>>)
     ELSE NoMatch

\* a literal
Literal(lit, s, i) == IF LitAt(s, i, lit) THEN Match(Len(lit), <<>>) ELSE NoMatch

\* Mutant: \.{3} without the lookbehind and the lookahead.
EllipsisAnywhere(s, i) ==
  IF LitAt(s, i, <<".", ".", ".">>) THEN Match(3, <<>>) ELSE NoMatch

\* (?<!\.)\.{3}(?!\.)
Ellipsis(s, i) ==
  IF LitAt(s, i, <<".", ".", ".">>) /\ ~At(s, i - 1, ".") /\ ~At(s, i + 3, ".")
  THEN Match(3, <<>>)
  ELSE NoMatch

\* \d{4}-\d{2}(?:-\d{2})?(?=\W|$): the optional day is tried first
IsoDate(s, i) ==
  LET digitAt(k) == k <= Len(s) /\ IsDigit(s[k])
      yearMonth == /\ \A k \in i..(i + 3) : digitAt(k)
                   /\ At(s, i + 4, "-")
                   /\ digitAt(i + 5) /\ digitAt(i + 6)
      day == At(s, i + 7, "-") /\ digitAt(i + 8) /\ digitAt(i + 9)
  IN IF yearMonth /\ day /\ AheadNonWord(s, i + 10) THEN Match(10, <<>>)
     ELSE IF yearMonth /\ AheadNonWord(s, i + 7) THEN Match(7, <<>>)
     ELSE NoMatch

RECURSIVE HyphenGroups(_, _)
\* the length of the longest run of groups -\d+ that starts at position p
HyphenGroups(s, p) ==
  LET d == RunLen(IsDigit, s, p + 1)
  IN IF At(s, p, "-") /\ d >= 1 THEN 1 + d + HyphenGroups(s, p + 1 + d) ELSE 0

\* \d+(-\d+){2,}
GroupedDigits(s, i) ==
  LET d == RunLen(IsDigit, s, i)
      first == IF At(s, i + d, "-") THEN 1 + RunLen(IsDigit, s, i + d + 1) ELSE 0
      rest == HyphenGroups(s, i + d + first)
  IN IF d >= 1 /\ first >= 2 /\ rest >= 2 THEN Match(d + first + rest, <<>>)
     ELSE NoMatch

\* (\d+)-(\d+)
DigitRange(s, i) ==
  LET d1 == RunLen(IsDigit, s, i)
      d2 == RunLen(IsDigit, s, i + d1 + 1)
  IN IF d1 >= 1 /\ At(s, i + d1, "-") /\ d2 >= 1
     THEN Match(d1 + 1 + d2,
                <<SubSeq(s, i, i + d1 - 1), SubSeq(s, i + d1 + 1, i + d1 + d2)>>)
     ELSE NoMatch

\* (?<=\S)c(?=\S) for a character c
BetweenNonSpace(c, s, i) ==
  IF /\ At(s, i, c) /\ i > 1 /\ ~IsSpace(s[i - 1]) /\ i < Len(s) /\ ~IsSpace(s[i + 1])
  THEN Match(1, <<>>)
  ELSE NoMatch

\* (\w+)-(\s)|(\s)-(\w+)
CompoundHyphen(s, i) ==
  LET w == RunLen(IsWord, s, i)
      v == RunLen(IsWord, s, i + 2)
  IN IF w >= 1 /\ At(s, i + w, "-") /\ i + w + 1 <= Len(s) /\ IsSpace(s[i + w + 1])
     THEN Match(w + 2, <<SubSeq(s, i, i + w - 1), <<s[i + w + 1]>>, <<>>, <<>>>>)
     ELSE IF i <= Len(s) /\ IsSpace(s[i]) /\ At(s, i + 1, "-") /\ v >= 1
     THEN Match(2 + v, <<<<>>, <<>>, <<s[i]>>, SubSeq(s, i + 2, i + 1 + v)>>)
     ELSE NoMatch

\* What follows the target of a link, from position p: (\|.+?)?\] with the optional
\* label tried first and its lazy group ending at the first "]" it can.
LinkTail(s, p) ==
  LET ends == {j \in (p + 2)..Len(s) :
                 s[j] = "]" /\ \A k \in (p + 1)..(j - 1) : IsDot(s[k])}
  IN IF At(s, p, "|") /\ ends # {}
     THEN LET j == CHOOSE e \in ends : \A f \in ends : e <= f
          IN Match(j - p + 1, <<SubSeq(s, p, j - 1)>>)
     ELSE IF At(s, p, "]") THEN Match(1, <<<<>>>>)
     ELSE NoMatch

\* \[(.+?)(\|.+?)?\]: the lazy target is the shortest one with a tail
LabeledLink(s, i) ==
  LET lens == {n \in 1..(Len(s) - i) :
                 /\ \A k \in (i + 1)..(i + n) : IsDot(s[k])
                 /\ LinkTail(s, i + n + 1).len > 0}
  IN IF At(s, i, "[") /\ lens # {}
     THEN LET n == CHOOSE e \in lens : \A f \in lens : e <= f
              tail == LinkTail(s, i + n + 1)
          IN Match(1 + n + tail.len, <<SubSeq(s, i + 1, i + n), tail.g[1]>>)
     ELSE NoMatch

\* \[([A-Za-z0-9+/=]+)(\|.+?)?\]: the greedy target is the longest one with a tail
EncodedLink(s, i) ==
  LET lens == {n \in 1..RunLen(IsB64Char, s, i + 1) : LinkTail(s, i + n + 1).len > 0}
  IN IF At(s, i, "[") /\ lens # {}
     THEN LET n == CHOOSE e \in lens : \A f \in lens : e >= f
              tail == LinkTail(s, i + n + 1)
          IN Match(1 + n + tail.len, <<SubSeq(s, i + 1, i + n), tail.g[1]>>)
     ELSE NoMatch

\* (?<=\/\/)(C+) for a character class C
AfterSlashes(C(_), s, i) ==
  LET n == RunLen(C, s, i)
  IN IF At(s, i - 2, "/") /\ At(s, i - 1, "/") /\ n >= 1
     THEN Match(n, <<SubSeq(s, i, i + n - 1)>>)
     ELSE NoMatch

MatchAt(re, s, i) ==
  CASE re = "doubleQuoted" -> Delimited("\"", s, i)
    [] re = "nIdiom" -> NIdiom(s, i)
    [] re = "singleQuoted" -> Delimited("'", s, i)
    [] re = "doublePrime" -> DoublePrime(s, i)
    [] re = "singlePrime" -> SinglePrime(s, i)
    [] re = "apostrophe" -> Literal(<<"'">>, s, i)
    [] re = "ellipsis" -> Ellipsis(s, i)
    [] re = "spacedHyphen" -> Literal(<<" ", "-", " ">>, s, i)
    [] re = "isoDate" -> IsoDate(s, i)
    [] re = "groupedDigits" -> GroupedDigits(s, i)
    [] re = "digitRange" -> DigitRange(s, i)
    [] re = "hyphen" -> BetweenNonSpace("-", s, i)
    [] re = "compoundHyphen" -> CompoundHyphen(s, i)
    [] re = "dashBrackets" -> Delimited("-", s, i)
    [] re = "acronym" -> BetweenNonSpace("\"", s, i)
    [] re = "labeledLink" -> LabeledLink(s, i)
    [] re = "plainUrl" -> AfterSlashes(IsNonSpace, s, i)
    [] re = "boldMarker" -> Literal(<<"'", "'", "'">>, s, i)
    [] re = "italicMarker" -> Literal(<<"'", "'">>, s, i)
    [] re = "boldToken" -> Literal(<<"<", "b", ">">>, s, i)
    [] re = "italicToken" -> Literal(<<"<", "i", ">">>, s, i)
    [] re = "encodedUrl" -> AfterSlashes(IsB64Char, s, i)
    [] re = "encodedLink" -> EncodedLink(s, i)

(***************************************************************************)
(* Substitution rules.  A rule is the pair [searchValue, replaceValue]; a  *)
(* replace value is a template (characters and the group references $1..$4)*)
(* or one of the script's replacer functions, named by a string.           *)
(***************************************************************************)

Template(t) == [fn |-> "template", tpl |-> t]
Function(name) == [fn |-> name, tpl |-> <<>>]
Rule(re, by) == [searchValue |-> re, replaceValue |-> by]

GroupRefs == <<"$1", "$2", "$3", "$4">>

RECURSIVE Expand(_, _)
\* GetSubstitution: a reference to a group the match has is replaced by the group (an
\* unset group by the empty text), every other character stands for itself.
Expand(tpl, groups) ==
  IF tpl = <<>> THEN <<>>
  ELSE LET c == Head(tpl)
           refs == {k \in 1..Len(GroupRefs) : GroupRefs[k] = c /\ k <= Len(groups)}
       IN (IF refs = {} THEN <<c>> ELSE groups[CHOOSE k \in refs : TRUE])
          \o Expand(Tail(tpl), groups)

\* replaceAll('-', c)
ReplaceAllHyphens(t, c) == [k \in 1..Len(t) |-> IF t[k] = "-" THEN c ELSE t[k]]

\* Mutant: the date is not validated.
potentialDateReplacerUnchecked(potentialDate, rollover) ==
  ReplaceAllHyphens(potentialDate, "U+2010")

\* (potentialDate) => { if (Number.isNaN(Date.parse(potentialDate))) return potentialDate;
\*                      return potentialDate.replaceAll('-', U+2010); }
potentialDateReplacer(potentialDate, rollover) ==
  IF ~DateParses(potentialDate, rollover) THEN potentialDate
  ELSE ReplaceAllHyphens(potentialDate, "U+2010")

\* Mutant: groupedDigits.replace('-', U+2012), which replaces the first hyphen only.
groupedDigitsReplacerFirst(groupedDigits) ==
  LET first == CHOOSE k \in 1..Len(groupedDigits) :
                 groupedDigits[k] = "-" /\ \A j \in 1..(k - 1) : groupedDigits[j] # "-"
  IN [groupedDigits EXCEPT ![first] = "U+2012"]

\* (groupedDigits) => groupedDigits.replaceAll('-', U+2012)
groupedDigitsReplacer(groupedDigits) == ReplaceAllHyphens(groupedDigits, "U+2012")

\* (_match, url, label = '') => `[${f(url)}${label}]` for f = btoa, atob
LinkReplacer(coded, label) ==
  IF coded.ok THEN Ok(<<"[">> \o coded.text \o label \o <<"]">>) ELSE Thrown

\* The text that replaces the match m (found in s at position i) under replace value by.
Replacement(by, s, i, m, rollover) ==
  LET whole == SubSeq(s, i, i + m.len - 1) IN
  CASE by.fn = "template" -> Ok(Expand(by.tpl, m.g))
    [] by.fn = "potentialDate" -> Ok(potentialDateReplacer(whole, rollover))
    [] by.fn = "groupedDigits" -> Ok(groupedDigitsReplacer(whole))
    [] by.fn = "encodeLink" -> LinkReplacer(btoa(m.g[1]), m.g[2])
    [] by.fn = "encodePath" -> btoa(m.g[1])
    [] by.fn = "decodePath" -> atob(m.g[1])
    [] by.fn = "decodeLink" -> LinkReplacer(atob(m.g[1]), m.g[2])

RECURSIVE ReplaceFrom(_, _, _, _)
\* String.prototype.replace with a global regular expression, from position i on: the
\* matches are the leftmost ones that do not overlap, all found in the text s as it was
\* handed over; a replacer function that throws ends the call.
ReplaceFrom(rule, s, i, rollover) ==
  IF i > Len(s) THEN Ok(<<>>)
  ELSE LET m == MatchAt(rule.searchValue, s, i) IN
       IF m.len = 0
       THEN LET rest == ReplaceFrom(rule, s, i + 1, rollover)
            IN IF rest.ok THEN Ok(<<s[i]>> \o rest.text) ELSE Thrown
       ELSE LET r == Replacement(rule.replaceValue, s, i, m, rollover)
                rest == ReplaceFrom(rule, s, i + m.len, rollover)
            IN IF r.ok /\ rest.ok THEN Ok(r.text \o rest.text) ELSE Thrown

\* value.replace(searchValue, replaceValue)
Replace(value, rule, rollover) == ReplaceFrom(rule, value, 1, rollover)

(***************************************************************************)
(* The rule tables.  Rules are objects: a table holds references into the  *)
(* heap, which gives each rule object its two elements.                    *)
(***************************************************************************)

\* The rule objects the script creates as it loads, in the order of their references:
\* 1..12 the rules of punctuationRules, 13..15 the rules of languageSpecificRules (de,
\* ja, he), 16..23 the rules transformationRulesToPreserveMarkup adds.
InitialHeap ==
  << Rule("doubleQuoted", Template(<<"U+201C", "$1", "U+201D">>)),
     Rule("nIdiom", Template(<<"U+2019", "$1", "U+2019">>)),
     Rule("singleQuoted", Template(<<"U+2018", "$1", "U+2019">>)),
     Rule("doublePrime", Template(<<"$1", "U+2033">>)),
     Rule("singlePrime", Template(<<"$1", "U+2032", "$2">>)),
     Rule("apostrophe", Template(<<"U+2019">>)),
     Rule("ellipsis", Template(<<"U+2026">>)),
     Rule("spacedHyphen", Template(<<" ", "U+2013", " ">>)),
     Rule("isoDate", Function("potentialDate")),
     Rule("groupedDigits", Function("groupedDigits")),
     Rule("digitRange", Template(<<"$1", "U+2013", "$2">>)),
     Rule("hyphen", Template(<<"U+2010">>)),
     Rule("compoundHyphen", Template(<<"$1", "$3", "U+2010", "$2", "$4">>)),
     Rule("dashBrackets", Template(<<"U+2013", "$1", "U+2013">>)),
     Rule("acronym", Template(<<"U+05F4">>)),
     Rule("labeledLink", Function("encodeLink")),
     Rule("plainUrl", Function("encodePath")),
     Rule("boldMarker", Template(<<"<", "b", ">">>)),
     Rule("italicMarker", Template(<<"<", "i", ">">>)),
     Rule("boldToken", Template(<<"'", "'", "'">>)),
     Rule("italicToken", Template(<<"'", "'">>)),
     Rule("encodedUrl", Function("decodePath")),
     Rule("encodedLink", Function("decodeLink")) >>

\* Mutant: the single quote rule listed before the 'n' rule.
PunctuationRulesQuotesFirst == <<1, 3, 2, 4, 5, 6, 7, 8, 9, 10, 11, 12>>

\* const punctuationRules = [...]: the references of its twelve rules
InitialPunctuationRules == <<1, 2, 3, 4, 5, 6, 7, 8, 9, 10, 11, 12>>

\* const languageSpecificRules = { de: [...], ja: [...], he: [...] }
InitialLanguageSpecificRules == [de |-> <<13>>, ja |-> <<14>>, he |-> <<15>>]

\* const languageSpecificOverrides = { en: [...], fr: [...], de: [...], he: [...] }
languageSpecificOverrides ==
  [ en |-> << Template(<<"U+201C", "$1", "U+201D">>), Template(<<"U+2018", "$1", "U+2019">>) >>,
    fr |-> << Template(<<"U+00AB", " ", "$1", " ", "U+00BB">>),
              Template(<<"U+2039", " ", "$1", " ", "U+203A">>) >>,
    de |-> << Template(<<"U+201E", "$1", "U+201C">>), Template(<<"U+201A", "$1", "U+2018">>) >>,
    he |-> << Template(<<"U+201D", "$1", "U+201D">>), Template(<<"U+2019", "$1", "U+2019">>),
              Template(<<"U+05F3">>), Template(<<"U+05BE">>) >> ]

\* const overrideRuleIndices = [0, 2, 5, 11] (positions counted from 0)
overrideRuleIndices == <<0, 2, 5, 11>>

\* const transformationRulesToPreserveMarkup = [encode..., ...punctuationRules, decode...]:
\* the spread copies the references of the base rules, not the rules.
transformationRulesToPreserveMarkup ==
  <<16, 17, 18, 19>> \o InitialPunctuationRules \o <<20, 21, 22, 23>>

\* Names every object inherits from Object.prototype: table[name] finds a value that is
\* neither null nor undefined and has no forEach.
ObjectPrototypeKeys ==
  {"constructor", "toString", "valueOf", "hasOwnProperty", "isPrototypeOf", "__proto__"}

\* table[language]?.forEach(...): "own" runs over the array found, "none" skips the
\* call (the value is undefined), "throw" is the TypeError of calling the missing forEach.
OptionalForEach(table, language) ==
  IF language \in DOMAIN table THEN "own"
  ELSE IF language \in ObjectPrototypeKeys THEN "throw"
  ELSE "none"

\* Mutant: punctuationRules.map((rule) => rule), no rule is copied.
MappedRuleShared(base, n, k) == base[k]

\* Mutant: index in overrideRuleIndices, which holds for the keys 0..3 of the array.
MappedRuleByKey(base, n, k) == IF k <= Len(overrideRuleIndices) THEN n + k ELSE base[k]

\* punctuationRules.map((rule, index) => overrideRuleIndices.includes(index) ? [...rule] : rule):
\* the reference at position k (from 1) of the new array, copies being allocated after
\* the n objects of the heap in the order of their positions.
MappedRule(base, n, k) ==
  IF \E j \in 1..Len(overrideRuleIndices) : overrideRuleIndices[j] = k - 1
  THEN n + Cardinality({j \in 1..k : \E x \in 1..Len(overrideRuleIndices) :
                                        overrideRuleIndices[x] = j - 1})
  ELSE base[k]

\* The heap after the map: every copy holds the two elements of the rule it copies.
MappedHeap(h, base) ==
  LET copied == {k \in 1..Len(base) : MappedRule(base, Len(h), k) > Len(h)}
  IN [r \in 1..(Len(h) + Cardinality(copied)) |->
        IF r <= Len(h) THEN h[r]
        ELSE h[base[CHOOSE k \in copied : MappedRule(base, Len(h), k) = r]]]

\* Mutant: rules[index][replaceValueIndex] = value, the position of the value taken
\* for the position of the rule.
OverriddenHeapByPosition(h, rules, language) ==
  IF OptionalForEach(languageSpecificOverrides, language) # "own" THEN h
  ELSE LET values == languageSpecificOverrides[language]
       IN [r \in 1..Len(h) |->
             IF \E index \in 1..Len(values) : rules[index] = r
             THEN [h[r] EXCEPT !.replaceValue =
                     values[CHOOSE index \in 1..Len(values) : rules[index] = r]]
             ELSE h[r]]

\* languageSpecificOverrides[language]?.forEach((value, index) =>
\*   rules[overrideRuleIndices[index]][replaceValueIndex] = value)
OverriddenHeap(h, rules, language) ==
  IF OptionalForEach(languageSpecificOverrides, language) # "own" THEN h
  ELSE LET values == languageSpecificOverrides[language]
           target(index) == rules[overrideRuleIndices[index] + 1]
       IN [r \in 1..Len(h) |->
             IF \E index \in 1..Len(values) : target(index) = r
             THEN [h[r] EXCEPT !.replaceValue =
                     values[CHOOSE index \in 1..Len(values) : target(index) = r]]
             ELSE h[r]]

\* languageSpecificRules[language]?.forEach((rule) => rules.push(rule))
AppendedRules(rules, extra, language) ==
  IF OptionalForEach(extra, language) = "own" THEN rules \o extra[language] ELSE rules

\* punctuationRulesForLanguage(language), run on heap h with the tables base and extra:
\* whether it throws, the heap it leaves and the array it returns.
punctuationRulesForLanguage(h, base, extra, language) ==
  LET rules == [k \in 1..Len(base) |-> MappedRule(base, Len(h), k)]
      mapped == MappedHeap(h, base)
  IN IF OptionalForEach(languageSpecificOverrides, language) = "throw"
        \/ OptionalForEach(extra, language) = "throw"
     THEN [threw |-> TRUE, heap |-> mapped, rules |-> <<>>]
     ELSE [threw |-> FALSE,
           heap |-> OverriddenHeap(mapped, rules, language),
           rules |-> AppendedRules(rules, extra, language)]

(***************************************************************************)
(* State                                                                   *)
(***************************************************************************)

VARIABLES
  heap,                  \* the rule objects: heap[r] is the pair that reference r names
  punctuationRules,      \* the array punctuationRules: references of its rules
  languageSpecificRules, \* the object languageSpecificRules: language -> array of references
  calls,                 \* the calls of punctuationRulesForLanguage whose result a caller holds
  overwritten,           \* the elements of returned rules that a caller has overwritten
  input,                 \* the text handed to transform
  value,                 \* transform's variable value
  substitutionRules,     \* transform's parameter: an array of references
  ruleIndex,             \* the position of forEach in substitutionRules (from 1)
  history,               \* the values before each rule that has run
  pc,                    \* "idle", "transform", "done" or "thrown"
  fields,                \* the input fields of the page: value, highlight class, events received
  before,                \* the fields as the last call of transformInputValues found them
  outcome,               \* of that call: "returned" or "thrown"; "none" before it and after an edit
  invocations,           \* the calls of transformInputValues so far
  edits,                 \* the values the user has typed so far
  entityType,            \* path[1] of the page
  listenersDue,          \* the 100 ms timeout of buildUI is pending
  acListeners,           \* the .open-ac buttons with insertACButton as click listener
  highlightListeners,    \* the .open-ac buttons with the listener that removes old highlights
  bubble,                \* #artist-credit-bubble .buttons is in the DOM
  pollTimers,            \* the pending 50 ms timeouts of insertACButton
  acButtons,             \* the guess buttons appended to the bubble
  clicks,                \* the clicks on .open-ac buttons so far
  polls                  \* the 50 ms timeouts that have fired so far

ruleVars == <<heap, punctuationRules, languageSpecificRules, calls, overwritten>>
textVars == <<input, value, substitutionRules, ruleIndex, history, pc>>
fieldVars == <<fields, before, outcome, invocations, edits>>
acVars == <<entityType, listenersDue, acListeners, highlightListeners, bubble, pollTimers,
            acButtons, clicks, polls>>
pageVars == <<fieldVars, acVars>>
vars == <<heap, punctuationRules, languageSpecificRules, calls, overwritten,
          input, value, substitutionRules, ruleIndex, history, pc,
          fields, before, outcome, invocations, edits,
          entityType, listenersDue, acListeners, highlightListeners, bubble, pollTimers,
          acButtons, clicks, polls>>

\* The rules an array of references names.
Deref(h, refs) == [k \in 1..Len(refs) |-> h[refs[k]]]

(***************************************************************************)
(* Bounds and inputs                                                       *)
(***************************************************************************)

\* how many results of punctuationRulesForLanguage callers hold
MaxCalls == 3
\* how many results the callers that overwrite rules hold
MaxClientCalls == 2
\* how many elements of returned rules callers overwrite
MaxOverwrites == 1
\* how many tokens a text of digit groups is made of
MaxDateTokens == 5
\* how many tokens a text of apostrophes and words is made of
MaxQuoteTokens == 5
\* how many tokens a text with markup is made of
MaxMarkupTokens == 4

\* how many tokens a text of digits, quotes and letters has
MaxPrimeTokens == 5

\* how many tokens a text of periods, digits and marks has
MaxTargetTokens == 4

\* how many calls of transformInputValues a page sees
MaxInvocations == 2
\* how many values the user types between them
MaxEdits == 1
\* how many input fields a selector selects
MaxFields == 2

\* how many .open-ac buttons the page has
MaxOpenAcButtons == 2
\* how many clicks on .open-ac buttons the user makes
MaxClicks == 3
\* how many 50 ms timeouts fire
MaxPolls == 3

\* The language codes callers pass: the languages with a table entry, a code without
\* one, the empty code, no code (the key "undefined") and a name from Object.prototype.
Languages == {"en", "fr", "de", "he", "ja", "xx", "", "undefined", "constructor"}

RECURSIVE Flatten(_)
\* The tokens of a sequence, one after the other.
Flatten(ts) == IF ts = <<>> THEN <<>> ELSE Head(ts) \o Flatten(Tail(ts))

\* The texts made of at most n of the tokens.
Texts(tokens, n) == UNION {{Flatten(ts) : ts \in [1..k -> tokens]} : k \in 0..n}

(***************************************************************************)
(* Operations                                                              *)
(***************************************************************************)

\* The state once the script has loaded: the tables as written, no text in hand.
TablesLoaded ==
  /\ heap = InitialHeap
  /\ punctuationRules = InitialPunctuationRules
  /\ languageSpecificRules = InitialLanguageSpecificRules
  /\ calls = <<>>
  /\ overwritten = {}

\* No input field has been looked at.
NoFields ==
  /\ fields = <<>>
  /\ before = <<>>
  /\ outcome = "none"
  /\ invocations = 0
  /\ edits = 0

\* A page without artist credits: buildUI sets no timeout.
NoArtistCredits ==
  /\ entityType = "work"
  /\ listenersDue = FALSE
  /\ acListeners = {}
  /\ highlightListeners = {}
  /\ bubble = FALSE
  /\ pollTimers = 0
  /\ acButtons = 0
  /\ clicks = 0
  /\ polls = 0

NoText ==
  /\ input = <<>>
  /\ value = <<>>
  /\ substitutionRules = <<>>
  /\ ruleIndex = 1
  /\ history = <<>>
  /\ pc = "idle"

\* A caller runs punctuationRulesForLanguage(language) and keeps what it returns.
Resolve(language, limit) ==
  /\ Len(calls) < limit
  /\ LET r == punctuationRulesForLanguage(heap, punctuationRules, languageSpecificRules, language)
     IN /\ heap' = r.heap
        /\ calls' = Append(calls, [language |-> language, threw |-> r.threw, rules |-> r.rules])
  /\ UNCHANGED <<punctuationRules, languageSpecificRules, overwritten>>
  /\ UNCHANGED textVars
  /\ UNCHANGED pageVars

\* What a caller writes over an element of a rule: a matcher and a replace value that
\* no table of the script holds.
ClientValue(field) ==
  IF field = "searchValue" THEN "clientMatcher" ELSE Template(<<"c", "l", "i", "e", "n", "t">>)

\* A caller assigns to element field of the rule at position k of the array that call c
\* returned: returned[k][0] = ... or returned[k][1] = ...
Overwrite(c, k, field) ==
  /\ Cardinality(overwritten) < MaxOverwrites
  /\ c \in 1..Len(calls)
  /\ k \in 1..Len(calls[c].rules)
  /\ heap' = [heap EXCEPT ![calls[c].rules[k]][field] = ClientValue(field)]
  /\ overwritten' = overwritten \cup {[call |-> c, index |-> k, field |-> field]}
  /\ UNCHANGED <<punctuationRules, languageSpecificRules, calls>>
  /\ UNCHANGED textVars
  /\ UNCHANGED pageVars

\* guessUnicodePunctuation hands punctuationRulesForLanguage(language) to transform.
GuessStart(language) ==
  /\ pc = "idle"
  /\ LET r == punctuationRulesForLanguage(heap, punctuationRules, languageSpecificRules, language)
     IN /\ heap' = r.heap
        /\ substitutionRules' = r.rules
        /\ pc' = IF r.threw THEN "thrown" ELSE "transform"
  /\ UNCHANGED <<punctuationRules, languageSpecificRules, calls, overwritten>>
  /\ UNCHANGED <<input, value, ruleIndex, history>>
  /\ UNCHANGED pageVars

\* transformInputValues(selector, transformationRulesToPreserveMarkup) reaches transform.
MarkupStart ==
  /\ pc = "idle"
  /\ substitutionRules' = transformationRulesToPreserveMarkup
  /\ pc' = "transform"
  /\ UNCHANGED ruleVars
  /\ UNCHANGED <<input, value, ruleIndex, history>>
  /\ UNCHANGED pageVars

\* The encode rules and the decode rules of transformationRulesToPreserveMarkup with
\* the punctuation rules between them left out.
EncodeDecodeRules ==
  SubSeq(transformationRulesToPreserveMarkup, 1, 4)
    \o SubSeq(transformationRulesToPreserveMarkup, 17, 20)

\* transform runs the encode rules and then the decode rules on a text.
RoundTripStart ==
  /\ pc = "idle"
  /\ substitutionRules' = EncodeDecodeRules
  /\ pc' = "transform"
  /\ UNCHANGED ruleVars
  /\ UNCHANGED <<input, value, ruleIndex, history>>
  /\ UNCHANGED pageVars

\* One turn of substitutionRules.forEach: value = value.replace(searchValue, replaceValue),
\* in an engine whose Date.parse rolls a day past the end of its month over or in one
\* whose Date.parse does not.
TransformStep ==
  /\ pc = "transform"
  /\ ruleIndex <= Len(substitutionRules)
  /\ \E rollover \in BOOLEAN :
       LET r == Replace(value, heap[substitutionRules[ruleIndex]], rollover)
       IN /\ r.ok
          /\ value' = r.text
  /\ history' = Append(history, value)
  /\ ruleIndex' = ruleIndex + 1
  /\ UNCHANGED ruleVars
  /\ UNCHANGED <<input, substitutionRules, pc>>
  /\ UNCHANGED pageVars

\* A replacer function throws: the exception leaves transform and its callers.
TransformThrow ==
  /\ pc = "transform"
  /\ ruleIndex <= Len(substitutionRules)
  /\ \E rollover \in BOOLEAN : ~Replace(value, heap[substitutionRules[ruleIndex]], rollover).ok
  /\ pc' = "thrown"
  /\ UNCHANGED ruleVars
  /\ UNCHANGED <<input, value, substitutionRules, ruleIndex, history>>
  /\ UNCHANGED pageVars

\* forEach has run every rule: return value.
TransformReturn ==
  /\ pc = "transform"
  /\ ruleIndex > Len(substitutionRules)
  /\ pc' = "done"
  /\ UNCHANGED ruleVars
  /\ UNCHANGED <<input, value, substitutionRules, ruleIndex, history>>
  /\ UNCHANGED pageVars

RECURSIVE transform(_, _, _, _, _)
\* transform(value, substitutionRules) from rule k on: the value returned, or the
\* exception of a replacer function.
transform(v, h, rules, k, rollover) ==
  IF k > Len(rules) THEN Ok(v)
  ELSE CHOOSE out \in {IF r.ok THEN transform(r.text, h, rules, k + 1, rollover) ELSE Thrown :
                         r \in {Replace(v, h[rules[k]], rollover)}} : TRUE

\* An input field: its value, whether its classList holds the highlight class, and the
\* types of the events dispatched to it.
Field(v) == [value |-> v, highlighted |-> FALSE, events |-> <<>>]

\* input.classList.remove(highlightClass)
Unhighlighted(fs, i) == [fs EXCEPT ![i].highlighted = FALSE]

\* if (value != input.value) {...}: the value is set, the event dispatched and the class
\* added.
Updated(fs, i, v, type) ==
  IF v # fs[i].value
  THEN [fs EXCEPT ![i] = [value |-> v, highlighted |-> TRUE, events |-> Append(@.events, type)]]
  ELSE fs

\* The type of the event a changed field receives: setReactInputValue dispatches an
\* input event, input.dispatchEvent(event) the event of the options.
DispatchedType(isReactInput, eventType) == IF isReactInput THEN "input" ELSE eventType

RECURSIVE ForEachInput(_, _, _, _, _, _)
\* qsa(inputSelector).forEach(...) from field i on: the fields afterwards, and whether
\* transform threw, which ends forEach.
ForEachInput(fs, i, h, rules, type, rollover) ==
  IF i > Len(fs) THEN [fields |-> fs, threw |-> FALSE]
  ELSE LET cleared == Unhighlighted(fs, i)
       IN IF fs[i].value = <<>>
          THEN ForEachInput(cleared, i + 1, h, rules, type, rollover)
          ELSE CHOOSE out \in
                 {IF t.ok
                  THEN ForEachInput(Updated(cleared, i, t.text, type), i + 1, h, rules,
                                    type, rollover)
                  ELSE [fields |-> cleared, threw |-> TRUE] :
                    t \in {transform(fs[i].value, h, rules, 1, rollover)}} : TRUE

\* transformInputValues(inputSelector, substitutionRules, options) on the fields of the
\* page, the rule objects being those of heap h.
transformInputValues(h, rules, isReactInput, eventType) ==
  /\ invocations < MaxInvocations
  /\ \E rollover \in BOOLEAN :
       \E r \in {ForEachInput(fields, 1, h, rules, DispatchedType(isReactInput, eventType),
                              rollover)} :
         /\ fields' = r.fields
         /\ outcome' = IF r.threw THEN "thrown" ELSE "returned"
  /\ before' = fields
  /\ invocations' = invocations + 1
  /\ UNCHANGED edits

EventTypes == {"change", "input"}

\* guessUnicodePunctuation(inputSelectors, options)
GuessFields(language, isReactInput, eventType) ==
  /\ LET r == punctuationRulesForLanguage(heap, punctuationRules, languageSpecificRules, language)
     IN /\ ~r.threw
        /\ heap' = r.heap
        /\ transformInputValues(r.heap, r.rules, isReactInput, eventType)
  /\ UNCHANGED <<punctuationRules, languageSpecificRules, calls, overwritten>>
  /\ UNCHANGED <<textVars, acVars>>

\* transformInputValues(selector, transformationRulesToPreserveMarkup)
MarkupFields ==
  /\ transformInputValues(heap, transformationRulesToPreserveMarkup, FALSE, "change")
  /\ UNCHANGED <<ruleVars, textVars, acVars>>

\* The user types the value v into field i.
UserTypes(i, v) ==
  /\ edits < MaxEdits
  /\ i \in 1..Len(fields)
  /\ fields' = [fields EXCEPT ![i].value = v]
  /\ before' = <<>>
  /\ outcome' = "none"
  /\ edits' = edits + 1
  /\ UNCHANGED invocations
  /\ UNCHANGED <<ruleVars, textVars, acVars>>

\* qsa('.open-ac')
OpenAcButtons == 1..MaxOpenAcButtons

\* The callback of the 100 ms timeout of buildUI: every .open-ac button gets
\* insertACButton as click listener and, in the release editor, the listener that removes
\* old highlights.
BuildUITimeout ==
  /\ listenersDue
  /\ listenersDue' = FALSE
  /\ acListeners' = OpenAcButtons
  /\ highlightListeners' = IF entityType = "release" THEN OpenAcButtons ELSE {}
  /\ UNCHANGED <<entityType, bubble, pollTimers, acButtons, clicks, polls>>
  /\ UNCHANGED <<ruleVars, textVars, fieldVars>>

\* Mutant: no listener is removed.
ListenersKept(listeners, event) == listeners

\* if (event) qsa('.open-ac').forEach((button) => button.removeEventListener(event.type,
\* insertACButton)): the buttons that have the listener afterwards.
ListenersAfter(listeners, event) == IF event THEN {} ELSE listeners

\* insertACButton(event), pending being the timeouts that stay pending: the listeners are
\* removed if there is an event; without the bubble a 50 ms timeout is set, with it a
\* button is appended.
insertACButton(event, pending) ==
  /\ acListeners' = ListenersAfter(acListeners, event)
  /\ IF ~bubble
     THEN pollTimers' = pending + 1 /\ UNCHANGED acButtons
     ELSE pollTimers' = pending /\ acButtons' = acButtons + 1

\* The user clicks the .open-ac button b: its click listeners run in the order they were
\* added.
ClickOpenAc(b) ==
  /\ clicks < MaxClicks
  /\ clicks' = clicks + 1
  /\ IF b \in acListeners
     THEN insertACButton(TRUE, pollTimers)
     ELSE UNCHANGED <<acListeners, pollTimers, acButtons>>
  /\ IF b \in highlightListeners
     THEN /\ fields' = [i \in 1..Len(fields) |-> [fields[i] EXCEPT !.highlighted = FALSE]]
          /\ before' = <<>>
          /\ outcome' = "none"
     ELSE UNCHANGED <<fields, before, outcome>>
  /\ UNCHANGED <<entityType, listenersDue, highlightListeners, bubble, polls>>
  /\ UNCHANGED <<invocations, edits>>
  /\ UNCHANGED <<ruleVars, textVars>>

\* A 50 ms timeout fires: insertACButton runs without an event.
PollTimeout ==
  /\ pollTimers > 0
  /\ polls < MaxPolls
  /\ polls' = polls + 1
  /\ insertACButton(FALSE, pollTimers - 1)
  /\ UNCHANGED <<entityType, listenersDue, highlightListeners, bubble, clicks>>
  /\ UNCHANGED <<ruleVars, textVars, fieldVars>>

\* The page puts the artist credit bubble into the DOM.
BubbleAppears ==
  /\ ~bubble
  /\ bubble' = TRUE
  /\ UNCHANGED <<entityType, listenersDue, acListeners, highlightListeners, pollTimers,
                 acButtons, clicks, polls>>
  /\ UNCHANGED <<ruleVars, textVars, fieldVars>>

\* The user clicks a guess button of the bubble:
\* guessUnicodePunctuation(acInputs, { isReactInput: true }).
ACGuessClick ==
  /\ acButtons > 0
  /\ GuessFields("undefined", TRUE, "change")

(***************************************************************************)
(* Specifications                                                          *)
(***************************************************************************)

\* Callers resolving rules for languages, in any order.
Init == TablesLoaded /\ NoText /\ NoFields /\ NoArtistCredits
Next == \E language \in Languages : Resolve(language, MaxCalls)
Spec == Init /\ [][Next]_vars

\* Callers that resolve rules and overwrite elements of the rules they were handed.
ClientLanguages == {"he", "undefined"}
RuleFields == {"searchValue", "replaceValue"}
NextClient ==
  \/ \E language \in ClientLanguages : Resolve(language, MaxClientCalls)
  \/ \E c \in 1..MaxClientCalls, k \in 1..(Len(InitialPunctuationRules) + 1), field \in RuleFields :
       Overwrite(c, k, field)
SpecClient == Init /\ [][NextClient]_vars

\* A text in hand, nothing run yet.
TextInHand(texts) ==
  /\ TablesLoaded
  /\ input \in texts
  /\ value = input
  /\ substitutionRules = <<>>
  /\ ruleIndex = 1
  /\ history = <<>>
  /\ pc = "idle"
  /\ NoFields
  /\ NoArtistCredits

Chars(tokens) == {<<c>> : c \in tokens}

\* guessUnicodePunctuation without a language on texts of digit groups and hyphens.
DateTokens == { <<"1", "9", "8", "9">>, <<"0", "2">>, <<"3", "0">>, <<"-">> }
Text1989to90 == <<"1", "9", "8", "9", "-", "9", "0">>
Text19870730 == <<"1", "9", "8", "7", "-", "0", "7", "-", "3", "0">>
TextGrouped == <<"1", "2", "-", "3", "4", "5", "-", "6", "7", "8", "9">>
DateExamples == {Text1989to90, Text19870730, TextGrouped}
InitDates == TextInHand(Texts(DateTokens, MaxDateTokens) \cup DateExamples)
NextBase ==
  \/ GuessStart("undefined")
  \/ TransformStep
  \/ TransformReturn
SpecDates == InitDates /\ [][NextBase]_vars

\* guessUnicodePunctuation without a language on texts of apostrophes and words.
QuoteTokens == Chars({"'", "n", "r", " "})
TextRockNRoll == <<"r", "o", "c", "k", " ", "'", "n", "'", " ", "r", "o", "l", "l">>
InitQuotes == TextInHand(Texts(QuoteTokens, MaxQuoteTokens) \cup {TextRockNRoll})
SpecQuotes == InitQuotes /\ [][NextBase]_vars

\* guessUnicodePunctuation without a language on texts of digits, quotes and letters.
PrimeTokens == Chars({"3", "'", "\"", "s"})
Text3Min42Sec == <<"3", "'", "4", "2", "\"">>
Text70s == <<"7", "0", "'", "s">>
InitPrimes == TextInHand(Texts(PrimeTokens, MaxPrimeTokens) \cup {Text3Min42Sec, Text70s})
SpecPrimes == InitPrimes /\ [][NextBase]_vars

\* guessUnicodePunctuation for each language code on texts of periods, digits and marks,
\* among them texts in which every mark is a Unicode mark already.
Locales == {"en", "fr", "de", "he", "ja", "xx", "undefined"}
TargetTokens == Chars({".", "U+2019", "3", "-"})
TextRockNRollDone ==
  <<"r", "o", "c", "k", " ", "U+2019", "n", "U+2019", " ", "r", "o", "l", "l">>
Text19870730Done == <<"1", "9", "8", "7", "U+2010", "0", "7", "U+2010", "3", "0">>
TextQuotedDone == <<"U+201C", "a", "U+201D", " ", "U+2013", " ", "3", "U+2033", "U+2026">>
TargetExamples == {TextRockNRollDone, Text19870730Done, TextQuotedDone}
InitTargets == TextInHand(Texts(TargetTokens, MaxTargetTokens) \cup TargetExamples)
NextLocales ==
  \/ \E language \in Locales : GuessStart(language)
  \/ TransformStep
  \/ TransformReturn
SpecTargets == InitTargets /\ [][NextLocales]_vars

\* Buttons that call transformInputValues on the fields of a page, and a user who types.
FieldTexts == { <<>>, <<"a">>, <<"'">>, <<"[", "U+65E5", "]">> }
FieldLanguages == {"undefined", "de"}
InitFields ==
  /\ TablesLoaded /\ NoText /\ NoArtistCredits
  /\ \E n \in 1..MaxFields : fields \in [1..n -> {Field(v) : v \in FieldTexts}]
  /\ before = <<>>
  /\ outcome = "none"
  /\ invocations = 0
  /\ edits = 0
NextFields ==
  \/ \E language \in FieldLanguages, isReactInput \in BOOLEAN, eventType \in EventTypes :
       GuessFields(language, isReactInput, eventType)
  \/ MarkupFields
  \/ \E i \in 1..MaxFields, v \in FieldTexts : UserTypes(i, v)
SpecFields == InitFields /\ [][NextFields]_vars

\* An edit page with artist credits: the .open-ac buttons, the bubble and its guess
\* button.
ACEntityTypes == {"release", "recording"}
InitAC ==
  /\ TablesLoaded /\ NoText
  /\ fields \in [1..1 -> {Field(v) : v \in {<<"a">>, <<"'">>}}]
  /\ before = <<>>
  /\ outcome = "none"
  /\ invocations = 0
  /\ edits = 0
  /\ entityType \in ACEntityTypes
  /\ listenersDue = TRUE
  /\ acListeners = {}
  /\ highlightListeners = {}
  /\ bubble = FALSE
  /\ pollTimers = 0
  /\ acButtons = 0
  /\ clicks = 0
  /\ polls = 0
NextAC ==
  \/ BuildUITimeout
  \/ \E b \in OpenAcButtons : ClickOpenAc(b)
  \/ PollTimeout
  \/ BubbleAppears
  \/ ACGuessClick
SpecAC == InitAC /\ [][NextAC]_vars

\* transformInputValues(selector, transformationRulesToPreserveMarkup) on texts with
\* links, URLs and markers.
MarkupTokens ==
  Chars({"[", "]", "|", "'", "a", " ", "U+65E5"})
    \cup { <<"/", "/">>, <<"<", "b", ">">>, <<"U+00FF", "U+00FF", "U+00FF">> }
TextLabeledLink ==
  << "[", "h", "t", "t", "p", ":", "/", "/", "e", "x", "a", "m", "p", "l", "e", ".", "c",
     "o", "m", "/", "a", "-", "b", "|", "l", "a", "b", "e", "l", "]" >>
InitMarkup == TextInHand(Texts(MarkupTokens, MaxMarkupTokens) \cup {TextLabeledLink})
NextMarkup ==
  \/ MarkupStart
  \/ TransformStep
  \/ TransformThrow
  \/ TransformReturn
SpecMarkup == InitMarkup /\ [][NextMarkup]_vars

\* The encode rules followed at once by the decode rules, on the same texts.
NextRoundTrip ==
  \/ RoundTripStart
  \/ TransformStep
  \/ TransformThrow
  \/ TransformReturn
SpecRoundTrip == InitMarkup /\ [][NextRoundTrip]_vars

(***************************************************************************)
(* Properties of rule resolution                                           *)
(***************************************************************************)

BaseRules == Deref(InitialHeap, InitialPunctuationRules)

\* The positions (from 1) of the overridable slots: the double quotes, the single
\* quotes, the residual apostrophe, the residual hyphen.
OverridableSlots == <<1, 3, 6, 12>>

\* The rule set a language stands for: the base rules in base order, the replace value
\* of the k-th overridable slot being the k-th override value of the language where it
\* has one, then the extra rules of the language.
ExpectedRules(language) ==
  LET values == IF language \in DOMAIN languageSpecificOverrides
                THEN languageSpecificOverrides[language] ELSE <<>>
      extra == IF language \in DOMAIN InitialLanguageSpecificRules
               THEN Deref(InitialHeap, InitialLanguageSpecificRules[language]) ELSE <<>>
  IN [i \in 1..Len(BaseRules) |->
        IF \E k \in 1..Len(values) : OverridableSlots[k] = i
        THEN [BaseRules[i] EXCEPT !.replaceValue =
                values[CHOOSE k \in 1..Len(values) : OverridableSlots[k] = i]]
        ELSE BaseRules[i]] \o extra

Returned == {c \in 1..Len(calls) : ~calls[c].threw}

\* C1: whatever calls of punctuationRulesForLanguage have run, punctuationRules still
\* holds its twelve initial pairs, and two calls for the same language returned equal
\* rule sets whatever ran between them.
C1_BaseTableKept ==
  /\ Len(punctuationRules) = 12
  /\ Deref(heap, punctuationRules) = BaseRules
  /\ \A c \in Returned, d \in Returned :
       calls[c].language = calls[d].language =>
         Deref(heap, calls[c].rules) = Deref(heap, calls[d].rules)

\* C1 witness: rules for French were resolved before and after rules for Hebrew.
C1_Witness ==
  /\ Len(calls) = 3
  /\ calls[1].language = "fr" /\ calls[2].language = "he" /\ calls[3].language = "fr"

\* The tables and the elements no caller overwrote are what they were made to be.
Untouched ==
  /\ Deref(heap, punctuationRules) = BaseRules
  /\ \A l \in DOMAIN languageSpecificRules :
       Deref(heap, languageSpecificRules[l]) = Deref(InitialHeap, InitialLanguageSpecificRules[l])
  /\ \A c \in Returned : \A k \in 1..Len(calls[c].rules) : \A field \in RuleFields :
       [call |-> c, index |-> k, field |-> field] \notin overwritten =>
         heap[calls[c].rules[k]][field] = ExpectedRules(calls[c].language)[k][field]

C3_ResolvedRules ==
  \A c \in Returned : Deref(heap, calls[c].rules) = ExpectedRules(calls[c].language)

\* C3 witness: rules for Hebrew (four overrides, one extra rule) were returned.
C3_Witness == \E c \in Returned : calls[c].language = "he" /\ Len(calls[c].rules) = 13

\* C4: for a language that is no key of the override table or of the extra rule table
\* the call raises no error and returns the unmodified base rules.
C4_UnknownLanguageGivesBase ==
  \A c \in 1..Len(calls) :
    calls[c].language \notin (DOMAIN languageSpecificOverrides \cup DOMAIN InitialLanguageSpecificRules)
      => ~calls[c].threw /\ Deref(heap, calls[c].rules) = BaseRules

(***************************************************************************)
(* Properties of the rule pipeline                                         *)
(***************************************************************************)

RECURSIVE MatchStarts(_, _, _)
\* The positions at which a global search for matcher re in s finds its matches, from
\* position i on.
MatchStarts(re, s, i) ==
  IF i > Len(s) THEN {}
  ELSE LET m == MatchAt(re, s, i)
       IN IF m.len = 0 THEN MatchStarts(re, s, i + 1)
          ELSE {i} \cup MatchStarts(re, s, i + m.len)

\* The text the match at position i covers.
Matched(re, s, i) == SubSeq(s, i, i + MatchAt(re, s, i).len - 1)
\* The positions the match at position i covers.
Span(re, s, i) == i..(i + MatchAt(re, s, i).len - 1)

Finished == pc = "done"

\* The value after rule k of the base pipeline has run (k < 12), in a finished run.
AfterRule(k) == history[k + 1]

\* C8: in a finished run of the base rules, the hyphens of a match of the date rule in
\* the input that parses as a date (in every engine) are all U+2010 in the result; a
\* match that does not parse (in any engine) is as it was after the date rule and its
\* hyphens end as figure or en dashes; a match on which the engines differ ends in one
\* of these two ways; 1989-90 ends as 1989, en dash, 90 and 1987-07-30 with two U+2010.
C8_DateOrRange ==
  Finished =>
    /\ Len(value) = Len(input)
    /\ \A i \in MatchStarts("isoDate", input, 1) :
         LET date == Matched("isoDate", input, i)
             hyphens == {k \in Span("isoDate", input, i) : input[k] = "-"}
         IN /\ DateParses(date, FALSE) => \A k \in hyphens : value[k] = "U+2010"
            /\ ~DateParses(date, TRUE) =>
                 /\ \A k \in Span("isoDate", input, i) : AfterRule(9)[k] = input[k]
                 /\ \A k \in hyphens : value[k] \in {"U+2012", "U+2013"}
            /\ \/ DateParses(date, TRUE) /\ \A k \in hyphens : value[k] = "U+2010"
               \/ /\ ~DateParses(date, FALSE)
                  /\ \A k \in Span("isoDate", input, i) : AfterRule(9)[k] = input[k]
    /\ input = Text1989to90 =>
         value = <<"1", "9", "8", "9", "U+2013", "9", "0">>
    /\ input = Text19870730 =>
         value = <<"1", "9", "8", "7", "U+2010", "0", "7", "U+2010", "3", "0">>

\* C8 witness: a finished run on a text holding a full date that parses.
C8_Witness ==
  /\ Finished
  /\ \E i \in MatchStarts("isoDate", input, 1) :
       /\ MatchAt("isoDate", input, i).len = 10
       /\ DateParses(Matched("isoDate", input, i), FALSE)
       /\ value[i + 4] = "U+2010" /\ value[i + 7] = "U+2010"

\* The number of digit groups of a text that is digit groups joined by single hyphens
\* and nothing else (0 for any other text).
GroupCount(s) ==
  IF /\ Len(s) > 0
     /\ \A k \in 1..Len(s) : IsDigit(s[k]) \/ s[k] = "-"
     /\ s[1] # "-" /\ s[Len(s)] # "-"
     /\ \A k \in 1..(Len(s) - 1) : ~(s[k] = "-" /\ s[k + 1] = "-")
  THEN 1 + Cardinality({k \in 1..Len(s) : s[k] = "-"})
  ELSE 0

Hyphens(s) == {k \in 1..Len(s) : s[k] = "-"}

\* A match of the date rule in s parses as a date in some engine.
HoldsDate(s) ==
  \E i \in MatchStarts("isoDate", s, 1) : DateParses(Matched("isoDate", s, i), TRUE)

\* C9 as claimed: a text of three or more digit groups joined by single hyphens ends
\* with a figure dash for every hyphen, and a text of two groups ends with none.
C9_GroupsGetFigureDashes ==
  Finished =>
    /\ GroupCount(input) >= 3 => \A k \in Hyphens(input) : value[k] = "U+2012"
    /\ GroupCount(input) = 2 => \A k \in Hyphens(input) : value[k] # "U+2012"

\* C9 as amended: that holds of the texts in which the date rule finds no date.
C9_GroupsWithoutDate ==
  Finished =>
    /\ Len(value) = Len(input)
    /\ (GroupCount(input) >= 3 /\ ~HoldsDate(input)) =>
         \A k \in Hyphens(input) : value[k] = "U+2012"
    /\ GroupCount(input) = 2 => \A k \in Hyphens(input) : value[k] # "U+2012"
    /\ input = TextGrouped =>
         value = <<"1", "2", "U+2012", "3", "4", "5", "U+2012", "6", "7", "8", "9">>

\* C9 witness: a finished run on three groups that the date rule matches but that are
\* no date.
C9_Witness ==
  /\ Finished
  /\ GroupCount(input) = 3
  /\ MatchStarts("isoDate", input, 1) # {}
  /\ ~HoldsDate(input)
  /\ \A k \in Hyphens(input) : value[k] = "U+2012"

\* The matchers of the base rules in the order the rules are listed.
ListedOrder ==
  << "doubleQuoted", "nIdiom", "singleQuoted", "doublePrime", "singlePrime", "apostrophe",
     "ellipsis", "spacedHyphen", "isoDate", "groupedDigits", "digitRange", "hyphen" >>

\* C10: the rules run in the listed order, each on the value the one before left, so
\* both apostrophes of every 'n' of the input that stands between non-word characters
\* end as U+2019, and rock 'n' roll ends as rock, U+2019, n, U+2019, roll.
C10_IdiomBeforeQuotes ==
  /\ pc # "idle" =>
       /\ [k \in 1..Len(substitutionRules) |-> heap[substitutionRules[k]].searchValue] = ListedOrder
       /\ ruleIndex = Len(history) + 1
       /\ Len(history) >= 1 => history[1] = input
  /\ Finished =>
       /\ Len(value) = Len(input)
       /\ \A i \in MatchStarts("nIdiom", input, 1) :
            value[i] = "U+2019" /\ value[i + 1] = input[i + 1] /\ value[i + 2] = "U+2019"
       /\ input = TextRockNRoll =>
            value = <<"r", "o", "c", "k", " ", "U+2019", "n", "U+2019", " ", "r", "o", "l", "l">>

\* C10 witness: the run on rock 'n' roll has finished.
C10_Witness == Finished /\ input = TextRockNRoll /\ value[6] = "U+2019"

(***************************************************************************)
(* Properties of the markup preserving rules                               *)
(***************************************************************************)

AsciiPunctuation == {"'", "\"", "-", "."}

\* C5: running transformationRulesToPreserveMarkup raises no error and changes no
\* character other than ASCII punctuation.
C5_NoErrorNoCorruption ==
  /\ pc # "thrown"
  /\ Finished =>
       /\ Len(value) = Len(input)
       /\ \A k \in 1..Len(input) : value[k] # input[k] => input[k] \in AsciiPunctuation

\* C6: the encode rules followed by the decode rules give back the text they were
\* given.
C6_RoundTrip == Finished => value = input

\* The positions of the targets of the links of s.
TargetPositions(s) ==
  UNION { (i + 1)..(i + Len(MatchAt("labeledLink", s, i).g[1])) :
            i \in MatchStarts("labeledLink", s, 1) }

\* The positions of the runs of non-space characters after the // of s that stand
\* outside the targets of its links.
UrlPositions(s) ==
  UNION { Span("plainUrl", s, i) :
            i \in {j \in MatchStarts("plainUrl", s, 1) : j - 1 \notin TargetPositions(s)} }

\* The apostrophes of s that belong to no bold or italic marker: the last one of a run
\* of 1, 4, 7, ... apostrophes.
LoneApostrophes(s) ==
  {k \in 1..Len(s) :
     /\ s[k] = "'"
     /\ ~At(s, k + 1, "'")
     /\ \E n \in 1..k : /\ \A j \in (k - n + 1)..k : s[j] = "'"
                        /\ ~At(s, k - n, "'")
                        /\ n % 3 = 1}

\* The positions of the protected spans of s.
ProtectedPositions(s) ==
  TargetPositions(s) \cup UrlPositions(s)
    \cup {k \in 1..Len(s) : s[k] = "'" /\ k \notin LoneApostrophes(s)}

\* C7, the protected spans: in the result every character of a protected span is the
\* character of the input.
C7_SpansKept ==
  Finished =>
    /\ Len(value) = Len(input)
    /\ \A k \in ProtectedPositions(input) : value[k] = input[k]

\* C7: the protected spans are kept and the text outside them is still rewritten: no
\* apostrophe outside a protected span is left as it was.
C7_SpansKeptRestRewritten ==
  /\ C7_SpansKept
  /\ Finished =>
       \A k \in 1..Len(input) :
         (input[k] = "'" /\ k \notin ProtectedPositions(input)) => value[k] # "'"

(***************************************************************************)
(* Properties of the prime rules                                           *)
(***************************************************************************)

AfterDigit(s, k) == k > 1 /\ IsDigit(s[k - 1])
BeforeDigit(s, k) == k < Len(s) /\ IsDigit(s[k + 1])
BeforeLetter(s, k) == k < Len(s) /\ IsLetter(s[k + 1])

\* The positions of the marks that close a double quoted text of s.
ClosingDoubleQuotes(s) ==
  {i + MatchAt("doubleQuoted", s, i).len - 1 : i \in MatchStarts("doubleQuoted", s, 1)}

\* The positions of the apostrophes of s that the single prime rule matches.
MatchedPrimes(s) ==
  {i + Len(MatchAt("singlePrime", s, i).g[1]) : i \in MatchStarts("singlePrime", s, 1)}

\* C11, the apostrophe before a letter: an apostrophe after a digit and before a letter
\* ends as U+2019 and never as a prime.
C11_ApostropheBeforeLetter ==
  Finished =>
    \A k \in 1..Len(input) :
      (input[k] = "'" /\ AfterDigit(input, k) /\ BeforeLetter(input, k)) => value[k] = "U+2019"

\* C11: in a finished run of the base rules a " after a digit is U+2033, a ' between
\* two digits is U+2032 and a ' after a digit and before a letter is U+2019; 3'42" ends
\* as 3, U+2032, 42, U+2033 and 70's as 70, U+2019, s.
C11_PrimesAfterDigits ==
  /\ C11_ApostropheBeforeLetter
  /\ Finished =>
       /\ Len(value) = Len(input)
       /\ \A k \in 1..Len(input) :
            /\ (input[k] = "\"" /\ AfterDigit(input, k)) => value[k] = "U+2033"
            /\ (input[k] = "'" /\ AfterDigit(input, k) /\ BeforeDigit(input, k)) =>
                 value[k] = "U+2032"
       /\ input = Text3Min42Sec => value = <<"3", "U+2032", "4", "2", "U+2033">>
       /\ input = Text70s => value = <<"7", "0", "U+2019", "s">>

\* C11, what the prime rules do: a " after a digit is U+2033 unless it closes a double quoted
\* text, and then it is U+201D; a ' that the single prime rule matches is U+2032, and a
\* ' between two digits that it does not match (the digits before it were taken by the
\* match before) is U+2019.
C11_PrimesAsMatched ==
  /\ C11_ApostropheBeforeLetter
  /\ Finished =>
       /\ Len(value) = Len(input)
       /\ \A k \in 1..Len(input) :
            /\ (input[k] = "\"" /\ AfterDigit(input, k)) =>
                 value[k] = IF k \in ClosingDoubleQuotes(input) THEN "U+201D" ELSE "U+2033"
            /\ (input[k] = "'" /\ AfterDigit(input, k) /\ BeforeDigit(input, k)) =>
                 value[k] = IF k \in MatchedPrimes(input) THEN "U+2032" ELSE "U+2019"
       /\ input = Text3Min42Sec => value = <<"3", "U+2032", "4", "2", "U+2033">>
       /\ input = Text70s => value = <<"7", "0", "U+2019", "s">>

(***************************************************************************)
(* Properties of texts that are in their target form                       *)
(***************************************************************************)

\* s holds a run of exactly three periods.
HasThreePeriods(s) ==
  \E i \in 1..Len(s) : /\ LitAt(s, i, <<".", ".", ".">>)
                       /\ ~At(s, i - 1, ".")
                       /\ ~At(s, i + 3, ".")

\* s holds no ASCII ", ' or - and no run of exactly three periods.
TargetFormsOnly(s) ==
  /\ \A k \in 1..Len(s) : s[k] \notin {"\"", "'", "-"}
  /\ ~HasThreePeriods(s)

\* C12: for every language code, when the input holds no ASCII ", ' or - and no run of
\* exactly three periods, no rule of the resolved rules matches it, the value after every
\* rule is the input and the result is the input.
C12_TargetFormsKept ==
  (pc \in {"transform", "done"} /\ TargetFormsOnly(input)) =>
    /\ \A k \in 1..Len(substitutionRules) :
         MatchStarts(heap[substitutionRules[k]].searchValue, input, 1) = {}
    /\ \A k \in 1..Len(history) : history[k] = input
    /\ value = input

\* C12 witness: the thirteen rules for Hebrew have run on a text of four periods.
C12_Witness ==
  /\ Finished
  /\ TargetFormsOnly(input)
  /\ Len(substitutionRules) = 13
  /\ Len(history) = 13
  /\ input = <<".", ".", ".", ".">>

(***************************************************************************)
(* Properties of transformInputValues                                      *)
(***************************************************************************)

\* Field i is as a call of transformInputValues should leave it: it has the highlight
\* class exactly if its value is not the value it had before the call, and if it was
\* empty or its value is the value it had, it has received no event.
AsLeft(i) ==
  /\ fields[i].highlighted <=> fields[i].value # before[i].value
  /\ (before[i].value = <<>> \/ fields[i].value = before[i].value) =>
       /\ fields[i].value = before[i].value
       /\ fields[i].events = before[i].events
  /\ fields[i].value # before[i].value =>
       Len(fields[i].events) = Len(before[i].events) + 1

\* C13: after every call of transformInputValues every field is as the call should
\* leave it.
C13_HighlightIffChanged ==
  outcome # "none" => \A i \in 1..Len(fields) : AsLeft(i)

\* C13, the calls that return: after a call of transformInputValues that has returned
\* every field is as the call should leave it.
C13_ReturnedHighlightIffChanged ==
  outcome = "returned" => \A i \in 1..Len(fields) : AsLeft(i)

\* C13, the calls that throw: the fields before the one whose transformation threw, and
\* that field, are as the call should leave them.
C13_ThrownLeavesRest ==
  outcome = "thrown" =>
    \E j \in 1..Len(fields) :
      /\ \A i \in 1..j : AsLeft(i)
      /\ fields[j].value = before[j].value
      /\ \A i \in (j + 1)..Len(fields) : fields[i] = before[i]

(***************************************************************************)
(* Properties of insertACButton                                            *)
(***************************************************************************)

\* C14: at most one guess button is appended to the bubble and at most one 50 ms timeout
\* is pending, and never both; until a click has run insertACButton every .open-ac
\* button has it as listener and nothing is pending or appended, and from then on no
\* button has it.
C14_AtMostOneButton ==
  /\ acButtons <= 1
  /\ pollTimers <= 1
  /\ acButtons + pollTimers <= 1
  /\ acListeners \in {{}, OpenAcButtons}
  /\ acListeners # {} => acButtons + pollTimers = 0
  /\ acButtons + pollTimers = 1 => (acListeners = {} /\ ~listenersDue /\ clicks >= 1)
  /\ acButtons = 1 => bubble
  /\ polls >= 1 => clicks >= 1

\* C14 witness: a click came before the bubble, the timeout has fired more than once,
\* the button is appended, and there have been more clicks.
C14_Witness ==
  /\ acButtons = 1
  /\ polls >= 2
  /\ clicks >= 2
====
